---- MODULE Spec2Model ----
(***************************************************************************)
(* Model of the Hinglish translator chains:                                *)
(*   week1-session1/code/hinglish-chain.js     (class HinglishChain)       *)
(*   week1-session1/code/session1-example1.js  (class HinglishChainPro)    *)
(* One chain instance serves a number of calls.  Every async method is cut *)
(* at its await points; a call slot records the position of one call and   *)
(* its local variables.  The model collaborator (ChatOllama, and the       *)
(* StructuredOutputParser piped behind it) answers each request with a     *)
(* value or with one of the errors it can raise.  Text is a sequence of    *)
(* string fragments, so that concatenation is \o.                          *)
(***************************************************************************)
EXTENDS Naturals, Sequences, FiniteSets, TLC

\* ------------------------------------------------------------------ bounds
\* Number of call slots that may overlap in SpecConc.
NCalls == 2
\* Largest value of options.maxRetries passed to the constructor.
MaxRetriesOpt == 3
\* Largest number of increments one stream delivers.
MaxChunks == 3

\* ------------------------------------------------------- program constants
\* this.maxRetries = options.maxRetries || 3
DefaultMaxRetries == 3
\* this.retryDelay = options.retryDelay || 1000
DefaultRetryDelay == 1000

Calls == 1..NCalls
Texts == {<<"kya baat hai">>, <<"mast hai">>}
Classes == {"HinglishChain", "HinglishChainPro"}

\* --------------------------------------------------------------- errors
\* A JavaScript Error object: its name, its code property ("undefined"
\* when it has none) and its message.
NewError(message) == [name |-> "Error", code |-> "undefined", message |-> message]
NoError == [name |-> "", code |-> "", message |-> <<>>]

TransportCodes == {"ECONNREFUSED", "ENOTFOUND", "ETIMEDOUT", "ECONNRESET"}
\* What the collaborator raises for a network fault with the given code.
TransportError(code) == [name |-> "Error", code |-> code, message |-> <<"connect ", code>>]
\* StructuredOutputParser raises OutputParserException both when the text is
\* not JSON (SyntaxError) and when the JSON violates the schema (ZodError).
ParserSyntaxError ==
  [name |-> "OutputParserException", code |-> "undefined",
   message |-> <<"Failed to parse. Error: SyntaxError">>]
ParserSchemaError ==
  [name |-> "OutputParserException", code |-> "undefined",
   message |-> <<"Failed to parse. Error: ZodError">>]
\* Errors of no recognised class: a server error without a code, and a
\* socket error whose code is not in any table.
ServerError == [name |-> "ResponseError", code |-> "undefined", message |-> <<"500 server error">>]
PipeError == [name |-> "Error", code |-> "EPIPE", message |-> <<"write EPIPE">>]

TransportErrors == {TransportError(code) : code \in TransportCodes}
ParserErrors == {ParserSyntaxError, ParserSchemaError}
UnknownErrors == {ServerError, PipeError}
\* Errors of prompt.pipe(llm): no parser behind the model.
LlmErrors == TransportErrors \cup UnknownErrors
\* Errors of prompt.pipe(llm).pipe(parser).
ChainErrors == LlmErrors \cup ParserErrors

\* handleError's errorMap
errorMap ==
  [code \in TransportCodes |->
     CASE code = "ECONNREFUSED" -> <<"Cannot connect to Ollama. Is it running?">>
       [] code = "ENOTFOUND"    -> <<"Ollama server not found. Check your setup.">>
       [] code = "ETIMEDOUT"    -> <<"Request timed out. Model might be busy.">>
       [] code = "ECONNRESET"   -> <<"Connection lost. Please try again.">>]

\* const message = errorMap[error.code] || error.message; return new Error(message)
handleError(error) ==
  NewError(IF error.code \in DOMAIN errorMap THEN errorMap[error.code] ELSE error.message)

NotRunningMsg == <<"Ollama is not running! Start with: ollama serve">>
InvalidJsonMsg == <<"Model returned invalid JSON. Try again.">>

\* A catch block that reports every failure with one message.
TranslateCatch_Generic(error) == NewError(InvalidJsonMsg)

\* The catch block of HinglishChainPro.translate: the error it throws.
TranslateCatch(error) ==
  IF error.code = "ECONNREFUSED" THEN NewError(NotRunningMsg)
  ELSE IF error.name = "OutputParserException" THEN NewError(InvalidJsonMsg)
  ELSE error

\* `Failed after ${this.maxRetries} attempts: ${lastError.message}`
ExhaustedError(n, lastError) ==
  NewError(<<"Failed after ", ToString(n), " attempts: ">> \o lastError.message)

\* The structured value the chain returns for a request with this input.
Translation(input) == [translated_text |-> <<"en:">> \o input]

\* ---------------------------------------------------------------- state
VARIABLES
  klass,       \* the class of the instance
  chain,       \* this.chain
  maxRetries,  \* this.maxRetries
  calls,       \* per call slot: position and local variables of the call
  validation,  \* a candidate and what hinglishResponseSchema makes of it
  rendering,   \* a prompt template, its bindings and the rendered messages
  session,     \* the terminal chat loop of agent-chat / agent-chat-fast
  retryDelay,  \* this.retryDelay
  speedTest,   \* the run of the model speed test
  verification, \* the run of the setup verification
  analysis     \* a message and what the sentiment tools make of it

vars ==
  <<klass, chain, maxRetries, calls, validation, rendering, session,
    retryDelay, speedTest, verification, analysis>>

\* The parts of the repository a specification does not exercise.
Unused == [pc |-> "off"]

\* this.chain = null
NoChain == [builder |-> 0, stages |-> <<>>]
\* prompt.pipe(llm).pipe(parser), built by the init() of call c
BuiltChain(c) == [builder |-> c, stages |-> <<"prompt", "llm", "parser">>]

NoRequest == [open |-> FALSE, builder |-> 0, input |-> <<>>]
NoStream == [chunks |-> <<>>, error |-> NoError]
NoResult == [translated_text |-> <<>>]

\* A slot no call has used yet.  built: the init() of this call builds or has
\* built a chain; raw, raws: the errors the collaborator raised to this call.
IdleCall ==
  [pc |-> "idle", method |-> "none", text |-> <<>>, hasSink |-> FALSE,
   history |-> <<>>,
   attempt |-> 0, lastError |-> NoError, waits |-> 0, delays |-> <<>>,
   request |-> NoRequest, collabCalls |-> 0, built |-> FALSE,
   raw |-> NoError, raws |-> <<>>,
   stream |-> NoStream, pos |-> 0, fullText |-> <<>>,
   sunk |-> <<>>, stdout |-> <<>>,
   status |-> "none", result |-> NoResult, error |-> NoError]

Finished(c) == calls[c].pc \in {"idle", "done"}
Quiet == \A c \in Calls : Finished(c)

\* constructor(modelName, options): this.chain = null;
\* this.maxRetries = options.maxRetries || 3  (0 stands for an absent option)
MaxRetriesOf(opt) == IF opt = 0 THEN DefaultMaxRetries ELSE opt
\* this.retryDelay = options.retryDelay || 1000  (0 stands for an absent option)
RetryDelayOf(opt) == IF opt = 0 THEN DefaultRetryDelay ELSE opt

\* The parts of the repository outside the chain classes, at rest.
Elsewhere ==
  /\ validation = Unused
  /\ rendering = Unused
  /\ session = Unused
  /\ speedTest = Unused
  /\ verification = Unused
  /\ analysis = Unused

\* new HinglishChain(modelName) / new HinglishChainPro(modelName): no options.
InitConc ==
  /\ klass \in Classes
  /\ chain = NoChain
  /\ maxRetries = (IF klass = "HinglishChainPro" THEN MaxRetriesOf(0) ELSE 0)
  /\ calls = [c \in Calls |-> IdleCall]
  /\ retryDelay = (IF klass = "HinglishChainPro" THEN RetryDelayOf(0) ELSE 0)
  /\ Elsewhere

Init ==
  /\ klass \in Classes
  /\ chain = NoChain
  /\ \E opt \in 0..MaxRetriesOpt :
       maxRetries = (IF klass = "HinglishChainPro" THEN MaxRetriesOf(opt) ELSE 0)
  /\ calls = [c \in Calls |-> IdleCall]
  /\ retryDelay = (IF klass = "HinglishChainPro" THEN RetryDelayOf(0) ELSE 0)
  /\ Elsewhere

\* ----------------------------------------------------------- init()
\* init() runs synchronously up to `await ....partial(...)`:
\* `if (this.chain) return;` decides whether this call builds a chain.
AfterInitCheck == IF chain # NoChain THEN "initDone" ELSE "building"

\* The continuation of init() after the await: this.chain = prompt.pipe(llm).pipe(parser)
InitBuild(c) ==
  /\ calls[c].pc = "building"
  /\ chain' = BuiltChain(c)
  /\ calls' = [calls EXCEPT ![c].pc = "initDone", ![c].built = TRUE]
  /\ UNCHANGED <<klass, maxRetries, validation, rendering, session,
               retryDelay, speedTest, verification, analysis>>

\* ----------------------------------------------------------- translate
\* A translate that answers a repeated text from the result of an earlier call.
EnterTranslate_Cached(c, method, text) ==
  IF \E d \in Calls : /\ calls[d].pc = "done" /\ calls[d].status = "ok"
                       /\ calls[d].method = method /\ calls[d].text = text
    THEN calls' = [calls EXCEPT ![c] =
           [IdleCall EXCEPT !.pc = "done", !.method = method, !.text = text,
                            !.status = "ok", !.result = Translation(text)]]
    ELSE calls' = [calls EXCEPT ![c] =
           [IdleCall EXCEPT !.pc = AfterInitCheck, !.method = method, !.text = text,
                            !.attempt = IF method = "translateWithRetry" THEN 1 ELSE 0]]

\* A call of translate(text) up to `await this.init()`.
EnterTranslate(c, method, text) ==
  calls' = [calls EXCEPT ![c] =
     [IdleCall EXCEPT !.pc = AfterInitCheck, !.method = method, !.text = text,
                      !.attempt = IF method = "translateWithRetry" THEN 1 ELSE 0]]

\* Bindings fixed when the chain was built: the text of the call that built it.
InvokeInput_Builder(c) == calls[chain.builder].text

\* The bindings handed to the chain: { hinglish_text: text }
InvokeInput(c) == calls[c].text

\* An invoke that sends the request twice without awaiting the first.
Invoke_Twice(c) ==
  /\ calls[c].pc = "initDone"
  /\ calls[c].method \in {"translate", "translateWithRetry"}
  /\ calls' = [calls EXCEPT
       ![c].pc = "awaitModel",
       ![c].request = [open |-> TRUE, builder |-> chain.builder, input |-> calls[c].text],
       ![c].collabCalls = @ + 2]
  /\ UNCHANGED <<klass, chain, maxRetries, validation, rendering, session,
               retryDelay, speedTest, verification, analysis>>

\* this.chain.invoke({ hinglish_text: text }): the request leaves for the
\* collaborator, through whatever chain this.chain holds now.
Invoke(c) ==
  /\ calls[c].pc = "initDone"
  /\ calls[c].method \in {"translate", "translateWithRetry"}
  /\ calls' = [calls EXCEPT
       ![c].pc = "awaitModel",
       ![c].request = [open |-> TRUE, builder |-> chain.builder, input |-> InvokeInput(c)],
       ![c].collabCalls = @ + 1]
  /\ UNCHANGED <<klass, chain, maxRetries, validation, rendering, session,
               retryDelay, speedTest, verification, analysis>>

\* What translate throws when its chain.invoke rejected with error:
\* HinglishChain.translate has no try/catch, HinglishChainPro.translate has.
TranslateThrows(error) ==
  IF klass = "HinglishChainPro" THEN TranslateCatch(error) ELSE error

\* chain.invoke resolves; translate returns the parsed value.
TranslateReturn(c) ==
  /\ calls[c].pc = "awaitModel"
  /\ calls[c].method = "translate"
  /\ calls' = [calls EXCEPT
       ![c].pc = "done", ![c].status = "ok",
       ![c].request = NoRequest, ![c].built = FALSE,
       ![c].result = Translation(calls[c].request.input)]
  /\ UNCHANGED <<klass, chain, maxRetries, validation, rendering, session,
               retryDelay, speedTest, verification, analysis>>

\* chain.invoke rejects; translate throws.
TranslateFail(c, error) ==
  /\ calls[c].pc = "awaitModel"
  /\ calls[c].method = "translate"
  /\ calls' = [calls EXCEPT
       ![c].pc = "done", ![c].status = "error",
       ![c].request = NoRequest, ![c].built = FALSE,
       ![c].raw = error, ![c].raws = Append(@, error),
       ![c].error = TranslateThrows(error)]
  /\ UNCHANGED <<klass, chain, maxRetries, validation, rendering, session,
               retryDelay, speedTest, verification, analysis>>

\* ------------------------------------------------- translateWithRetry
\* The test of the catch block: `error.name === "OutputParserException"`.
NoRetryFor(error) == error.name = "OutputParserException"

\* A try block without the `return`: after a successful attempt the loop
\* waits and goes on.
RetryReturn_Continue(c) ==
  /\ calls[c].pc = "awaitModel"
  /\ calls[c].method = "translateWithRetry"
  /\ calls' = [calls EXCEPT
       ![c].pc = "delay", ![c].request = NoRequest,
       ![c].result = Translation(calls[c].request.input)]
  /\ UNCHANGED <<klass, chain, maxRetries, validation, rendering, session,
               retryDelay, speedTest, verification, analysis>>

\* An attempt's translate resolved: `return result`.
RetryReturn(c) ==
  /\ calls[c].pc = "awaitModel"
  /\ calls[c].method = "translateWithRetry"
  /\ calls' = [calls EXCEPT
       ![c].pc = "done", ![c].status = "ok",
       ![c].request = NoRequest, ![c].built = FALSE,
       ![c].result = Translation(calls[c].request.input)]
  /\ UNCHANGED <<klass, chain, maxRetries, validation, rendering, session,
               retryDelay, speedTest, verification, analysis>>

\* A loop test that stops one attempt early.
LoopContinues_Strict(attempt) == attempt < maxRetries

\* A loop test that allows one attempt too many.
LoopContinues_Extra(attempt) == attempt <= maxRetries + 1

\* The loop test: `attempt <= this.maxRetries`.
LoopContinues(attempt) == attempt <= maxRetries

\* A wait after every failed attempt, the last one too.
WaitsBeforeNext_Always(attempt) == TRUE

\* The test before the wait: `attempt < this.maxRetries`.
WaitsBeforeNext(attempt) == attempt < maxRetries

\* An assignment that keeps the first error caught.
CaughtLastError_First(previous, error) == IF previous = NoError THEN error ELSE previous

\* `lastError = error`
CaughtLastError(previous, error) == error

\* An attempt counter kept on the instance: every call counts on from the
\* largest attempt number any call has reached.
NextIteration_Shared(call) ==
  LET reached == {calls[d].attempt : d \in Calls}
      top == CHOOSE n \in reached : \A m \in reached : m <= n
  IN IF LoopContinues(top + 1)
       THEN [call EXCEPT !.pc = AfterInitCheck, !.attempt = top + 1]
       ELSE [call EXCEPT !.pc = "done", !.built = FALSE, !.status = "error",
                         !.error = ExhaustedError(maxRetries, call.lastError)]

\* `attempt++` and the loop test: the next translate(text) runs up to
\* `await this.init()`, or the loop ends and the final throw is reached.
NextIteration(call) ==
  IF LoopContinues(call.attempt + 1)
    THEN [call EXCEPT !.pc = AfterInitCheck, !.attempt = @ + 1]
    ELSE [call EXCEPT !.pc = "done", !.built = FALSE, !.status = "error",
                      !.error = ExhaustedError(maxRetries, call.lastError)]

\* An attempt's translate threw: the catch block, and when no wait follows
\* the rest of the loop.
RetryFail(c, error) ==
  /\ calls[c].pc = "awaitModel"
  /\ calls[c].method = "translateWithRetry"
  /\ LET thrown == TranslateThrows(error)
         caught == [calls[c] EXCEPT !.request = NoRequest,
                                    !.raw = error, !.raws = Append(@, error),
                                    !.lastError = CaughtLastError(@, thrown)]
     IN calls' = [calls EXCEPT ![c] =
          IF NoRetryFor(thrown)
            THEN [caught EXCEPT !.pc = "done", !.built = FALSE,
                                !.status = "error", !.error = thrown]
          ELSE IF WaitsBeforeNext(calls[c].attempt)
            THEN [caught EXCEPT !.pc = "delay", !.waits = @ + 1,
                                !.delays = Append(@, retryDelay)]
          ELSE NextIteration(caught)]
  /\ UNCHANGED <<klass, chain, maxRetries, validation, rendering, session,
               retryDelay, speedTest, verification, analysis>>

\* The retryDelay timer fires and the loop goes on.
RetryDelayElapsed(c) ==
  /\ calls[c].pc = "delay"
  /\ calls' = [calls EXCEPT ![c] = NextIteration(calls[c])]
  /\ UNCHANGED <<klass, chain, maxRetries, validation, rendering, session,
               retryDelay, speedTest, verification, analysis>>

\* ------------------------------------------------- translateStreamRaw
\* The text of one increment; the last increment of a stream is often empty.
ChunkContents == {<<>>, <<"Hel">>, <<"lo">>}
\* An AIMessageChunk
Chunks == [content : ChunkContents]

RECURSIVE SeqsUpTo(_, _)
SeqsUpTo(S, n) ==
  IF n = 0 THEN {<<>>}
  ELSE LET shorter == SeqsUpTo(S, n - 1)
       IN shorter \cup {Append(q, x) : q \in {r \in shorter : Len(r) = n - 1}, x \in S}

\* What the collaborator may stream: some increments, then the end of the
\* stream or an error.
Streams == [chunks : SeqsUpTo(Chunks, MaxChunks), error : {NoError} \cup LlmErrors]

\* const content = chunk.content || chunk;
\* an empty string is falsy, so the chunk object itself is taken.
ContentOf(chunk) ==
  IF chunk.content # <<>> THEN [kind |-> "string", text |-> chunk.content]
  ELSE [kind |-> "object", text |-> chunk.content]

\* String conversion of a content value, as `fullText += content` applies it.
StringOf(content) ==
  IF content.kind = "string" THEN content.text ELSE <<"[object Object]">>

\* A sink that is called for non-empty text only.
SinkCalls_SkipEmpty(sunk, content) ==
  IF content.kind = "string" THEN Append(sunk, content) ELSE sunk

\* if (onToken) { onToken(content) }: the calls the sink has received.
SinkCalls(sunk, content) == Append(sunk, content)

\* A call of translateStreamRaw(text, onToken) up to `await this.init()`.
EnterStream(c, text, hasSink) ==
  calls' = [calls EXCEPT ![c] =
     [IdleCall EXCEPT !.pc = AfterInitCheck, !.method = "translateStreamRaw",
                      !.text = text, !.hasSink = hasSink]]

\* await prompt.pipe(llm).stream({ text }): the streaming request is open.
StreamOpen(c, stream) ==
  /\ calls[c].pc = "initDone"
  /\ calls[c].method = "translateStreamRaw"
  /\ calls' = [calls EXCEPT
       ![c].pc = "streaming",
       ![c].request = [open |-> TRUE, builder |-> 0, input |-> calls[c].text],
       ![c].collabCalls = @ + 1,
       ![c].stream = stream, ![c].pos = 0, ![c].fullText = <<>>]
  /\ UNCHANGED <<klass, chain, maxRetries, validation, rendering, session,
               retryDelay, speedTest, verification, analysis>>

\* One turn of `for await (const chunk of stream)`.
StreamNext(c) ==
  /\ calls[c].pc = "streaming"
  /\ calls[c].pos < Len(calls[c].stream.chunks)
  /\ LET chunk == calls[c].stream.chunks[calls[c].pos + 1]
         content == ContentOf(chunk)
     IN calls' = [calls EXCEPT
          ![c].pos = @ + 1,
          ![c].fullText = @ \o StringOf(content),
          ![c].sunk = IF calls[c].hasSink THEN SinkCalls(@, content) ELSE @,
          ![c].stdout = IF calls[c].hasSink THEN @ ELSE Append(@, content)]
  /\ UNCHANGED <<klass, chain, maxRetries, validation, rendering, session,
               retryDelay, speedTest, verification, analysis>>

\* The stream ends: return { translated_text: fullText }
StreamEnd(c) ==
  /\ calls[c].pc = "streaming"
  /\ calls[c].pos = Len(calls[c].stream.chunks)
  /\ calls[c].stream.error = NoError
  /\ calls' = [calls EXCEPT
       ![c].pc = "done", ![c].status = "ok", ![c].request = NoRequest, ![c].built = FALSE,
       ![c].result = [translated_text |-> calls[c].fullText]]
  /\ UNCHANGED <<klass, chain, maxRetries, validation, rendering, session,
               retryDelay, speedTest, verification, analysis>>

\* A catch block that gives back what was read before the stream raised.
StreamFail_Partial(c) ==
  /\ calls[c].pc = "streaming"
  /\ calls[c].pos = Len(calls[c].stream.chunks)
  /\ calls[c].stream.error # NoError
  /\ calls' = [calls EXCEPT
       ![c].pc = "done", ![c].status = "error", ![c].request = NoRequest, ![c].built = FALSE,
       ![c].raw = calls[c].stream.error, ![c].raws = Append(@, calls[c].stream.error),
       ![c].result = [translated_text |-> calls[c].fullText],
       ![c].error = handleError(calls[c].stream.error)]
  /\ UNCHANGED <<klass, chain, maxRetries, validation, rendering, session,
               retryDelay, speedTest, verification, analysis>>

\* The stream raises: catch (error) { throw this.handleError(error) }
StreamFail(c) ==
  /\ calls[c].pc = "streaming"
  /\ calls[c].pos = Len(calls[c].stream.chunks)
  /\ calls[c].stream.error # NoError
  /\ calls' = [calls EXCEPT
       ![c].pc = "done", ![c].status = "error", ![c].request = NoRequest, ![c].built = FALSE,
       ![c].raw = calls[c].stream.error, ![c].raws = Append(@, calls[c].stream.error),
       ![c].error = handleError(calls[c].stream.error)]
  /\ UNCHANGED <<klass, chain, maxRetries, validation, rendering, session,
               retryDelay, speedTest, verification, analysis>>

\* ------------------------------------------------------------------ chat
\* Fragments of a message template that are placeholders.
PlaceholderTokens == {"{message}", "{name}"}
Histories ==
  { <<>>,
    << [role |-> "human", text |-> <<"thak gaya">>], [role |-> "ai", text |-> <<"aww">>] >>,
    << [role |-> "human", text |-> <<"call me ", "{name}">>] >> }

\* ChatPromptTemplate.fromMessages([["system", ...], ...history, ["user", "{message}"]])
ChatTemplate(history) ==
  << [role |-> "system", text |-> <<"You are a warm, curious friend">>] >>
    \o history \o << [role |-> "user", text |-> <<"{message}">>] >>

\* The input variables of a template: the placeholders of its messages.
InputVariables(template) ==
  {f \in PlaceholderTokens :
     \E i \in 1..Len(template) : \E j \in 1..Len(template[i].text) : template[i].text[j] = f}

\* Formatting one message: each placeholder is replaced by its binding.
RECURSIVE FormatText(_, _)
FormatText(text, bindings) ==
  IF text = <<>> THEN <<>>
  ELSE (IF Head(text) \in PlaceholderTokens THEN bindings[Head(text)] ELSE <<Head(text)>>)
         \o FormatText(Tail(text), bindings)

FormatMessages(template, bindings) ==
  [i \in 1..Len(template) |->
     [role |-> template[i].role, text |-> FormatText(template[i].text, bindings)]]

\* What formatting raises when an input variable has no binding.
TemplateError(variable) ==
  [name |-> "Error", code |-> "undefined",
   message |-> <<"Missing value for input variable ", variable>>]

\* chat(message, history) up to `await chain.invoke({ message })`.
EnterChat(c, message, history) ==
  LET template == ChatTemplate(history)
      renders == InputVariables(template) \subseteq {"{message}"}
  IN calls' = [calls EXCEPT ![c] =
       [IdleCall EXCEPT !.pc = "awaitModel", !.method = "chat",
                        !.text = message, !.history = history,
                        !.request =
                          [open |-> renders, builder |-> 0,
                           input |-> IF renders
                                       THEN FormatMessages(template, [v \in {"{message}"} |-> message])
                                       ELSE <<>>],
                        !.collabCalls = IF renders THEN 1 ELSE 0]]

\* The model's reply to the rendered messages of a chat request.
Reply(messages) == <<"re:">> \o messages[Len(messages)].text

\* return response.content
ChatReturn(c) ==
  /\ calls[c].pc = "awaitModel"
  /\ calls[c].method = "chat"
  /\ calls[c].request.open
  /\ calls' = [calls EXCEPT
       ![c].pc = "done", ![c].status = "ok", ![c].request = NoRequest, ![c].built = FALSE,
       ![c].result = [translated_text |-> Reply(calls[c].request.input)]]
  /\ UNCHANGED <<klass, chain, maxRetries, validation, rendering, session,
               retryDelay, speedTest, verification, analysis>>

\* chain.invoke rejects: catch (error) { throw this.handleError(error) }
ChatFail(c, error) ==
  /\ calls[c].pc = "awaitModel"
  /\ calls[c].method = "chat"
  /\ IF calls[c].request.open
       THEN error \in LlmErrors
       ELSE error \in {TemplateError(v) :
                         v \in InputVariables(ChatTemplate(calls[c].history)) \ {"{message}"}}
  /\ calls' = [calls EXCEPT
       ![c].pc = "done", ![c].status = "error", ![c].request = NoRequest, ![c].built = FALSE,
       ![c].raw = error, ![c].raws = Append(@, error),
       ![c].error = handleError(error)]
  /\ UNCHANGED <<klass, chain, maxRetries, validation, rendering, session,
               retryDelay, speedTest, verification, analysis>>

\* ------------------------------------------------------ specifications
\* A caller that awaits each call before it makes the next one.
StartTranslate(c, text) ==
  /\ Quiet
  /\ EnterTranslate(c, "translate", text)
  /\ UNCHANGED <<klass, chain, maxRetries, validation, rendering, session,
               retryDelay, speedTest, verification, analysis>>

StartTranslateWithRetry(c, text) ==
  /\ Quiet
  /\ klass = "HinglishChainPro"
  /\ EnterTranslate(c, "translateWithRetry", text)
  /\ UNCHANGED <<klass, chain, maxRetries, validation, rendering, session,
               retryDelay, speedTest, verification, analysis>>

StartTranslateStreamRaw(c, text, hasSink) ==
  /\ Quiet
  /\ klass = "HinglishChainPro"
  /\ EnterStream(c, text, hasSink)
  /\ UNCHANGED <<klass, chain, maxRetries, validation, rendering, session,
               retryDelay, speedTest, verification, analysis>>

StartChat(c, message, history) ==
  /\ Quiet
  /\ klass = "HinglishChainPro"
  /\ EnterChat(c, message, history)
  /\ UNCHANGED <<klass, chain, maxRetries, validation, rendering, session,
               retryDelay, speedTest, verification, analysis>>

\* A caller that starts translate calls without awaiting the earlier ones.
StartConcurrentTranslate(c, text) ==
  /\ Finished(c)
  /\ EnterTranslate(c, "translate", text)
  /\ UNCHANGED <<klass, chain, maxRetries, validation, rendering, session,
               retryDelay, speedTest, verification, analysis>>

Next ==
  \/ \E text \in Texts : StartTranslate(1, text)
  \/ \E text \in Texts : StartTranslateWithRetry(1, text)
  \/ \E text \in Texts, hasSink \in BOOLEAN : StartTranslateStreamRaw(1, text, hasSink)
  \/ \E message \in Texts, history \in Histories : StartChat(1, message, history)
  \/ InitBuild(1)
  \/ Invoke(1)
  \/ TranslateReturn(1)
  \/ \E error \in ChainErrors : TranslateFail(1, error)
  \/ RetryReturn(1)
  \/ \E error \in ChainErrors : RetryFail(1, error)
  \/ RetryDelayElapsed(1)
  \/ \E stream \in Streams : StreamOpen(1, stream)
  \/ StreamNext(1)
  \/ StreamEnd(1)
  \/ StreamFail(1)
  \/ ChatReturn(1)
  \/ \E error \in LlmErrors \cup {TemplateError(v) : v \in PlaceholderTokens} : ChatFail(1, error)

Spec == Init /\ [][Next]_vars

NextConc ==
  \/ \E c \in Calls, text \in Texts : StartConcurrentTranslate(c, text)
  \/ \E c \in Calls : InitBuild(c)
  \/ \E c \in Calls : Invoke(c)
  \/ \E c \in Calls : TranslateReturn(c)
  \/ \E c \in Calls, error \in ChainErrors : TranslateFail(c, error)

SpecConc == InitConc /\ [][NextConc]_vars

\* A caller that starts translateWithRetry calls without awaiting the
\* earlier ones, as demo() passes "kitna badiya hai".
RetryText == <<"kitna badiya hai">>
StartConcurrentRetry(c, text) ==
  /\ Finished(c)
  /\ klass = "HinglishChainPro"
  /\ EnterTranslate(c, "translateWithRetry", text)
  /\ UNCHANGED <<klass, chain, maxRetries, validation, rendering, session,
               retryDelay, speedTest, verification, analysis>>

NextRetryConc ==
  \/ \E c \in Calls : StartConcurrentRetry(c, RetryText)
  \/ \E c \in Calls : InitBuild(c)
  \/ \E c \in Calls : Invoke(c)
  \/ \E c \in Calls : RetryReturn(c)
  \/ \E c \in Calls, error \in {TransportError("ETIMEDOUT"), ServerError} : RetryFail(c, error)
  \/ \E c \in Calls : RetryDelayElapsed(c)

SpecRetryConc == InitConc /\ [][NextRetryConc]_vars

\* ---------------------------------------------------------- properties
Timeout == TransportError("ETIMEDOUT")

IsRetry(c) == calls[c].method = "translateWithRetry"
Done(c) == calls[c].pc = "done"
Failed(c) == Done(c) /\ calls[c].status = "error"
Succeeded(c) == Done(c) /\ calls[c].status = "ok"

\* The surfaced error is the retries-exhausted error.
IsExhaustedError(error) == Len(error.message) >= 3 /\ error.message[1] = "Failed after "

\* C1: when the first attempt of translateWithRetry fails structured-output
\* validation, the call is over after that one attempt and throws the
\* validation error itself, not a retries-exhausted error.
C1_NoRetryOnValidation ==
  \A c \in Calls :
    (IsRetry(c) /\ calls[c].raws # <<>> /\ calls[c].raws[1] = ParserSchemaError)
      => /\ Done(c)
         /\ calls[c].collabCalls = 1
         /\ ~IsExhaustedError(calls[c].error)

\* Every collaborator call this call has made failed with a timeout.
AllCallsTimedOut(c) ==
  /\ Len(calls[c].raws) = calls[c].collabCalls
  /\ \A i \in 1..Len(calls[c].raws) : calls[c].raws[i] = Timeout

\* C2: with maxRetries = 3 and a collaborator that times out on every call,
\* translateWithRetry calls it exactly 3 times and then throws the
\* retries-exhausted error, which reports 3 attempts.
C2_ThreeAttemptsOnTimeout ==
  \A c \in Calls :
    (IsRetry(c) /\ maxRetries = 3 /\ AllCallsTimedOut(c))
      => /\ calls[c].collabCalls <= 3
         /\ Done(c) <=> calls[c].collabCalls = 3
         /\ Done(c) => /\ calls[c].status = "error"
                       /\ IsExhaustedError(calls[c].error)
                       /\ calls[c].error.message[2] = "3"

C2_Witness ==
  /\ IsRetry(1) /\ maxRetries = 3 /\ AllCallsTimedOut(1)
  /\ Failed(1) /\ calls[1].collabCalls = 3

\* C3: translateWithRetry goes on to a further attempt (or waits for one)
\* only after a failure of transport class.
C3_RetryOnlyTransport ==
  \A c \in Calls :
    IsRetry(c) =>
      \A i \in 1..Len(calls[c].raws) :
        (i < calls[c].collabCalls \/ (i = Len(calls[c].raws) /\ calls[c].pc = "delay"))
          => calls[c].raws[i] \in TransportErrors

\* C4: the retries-exhausted error carries the message of the error thrown by
\* the final attempt, and the number of attempts made, which is maxRetries.
C4_ExhaustedCarriesLast ==
  \A c \in Calls :
    (IsRetry(c) /\ Failed(c) /\ IsExhaustedError(calls[c].error))
      => /\ calls[c].collabCalls = maxRetries
         /\ Len(calls[c].raws) = maxRetries
         /\ calls[c].error.message =
              <<"Failed after ", ToString(calls[c].collabCalls), " attempts: ">>
                \o TranslateThrows(calls[c].raws[maxRetries]).message

C4_Witness ==
  /\ IsRetry(1) /\ Failed(1) /\ IsExhaustedError(calls[1].error)
  /\ maxRetries = 3
  /\ calls[1].raws = <<Timeout, TransportError("ECONNRESET"), ServerError>>

IsStream(c) == calls[c].method = "translateStreamRaw"

\* C5: in streaming mode with a sink, the sink has received one call per
\* increment consumed so far, in the order of the stream, and when the call
\* returns its result every increment of the stream has been delivered.
C5_SinkOrder ==
  \A c \in Calls :
    (IsStream(c) /\ calls[c].hasSink) =>
      /\ Len(calls[c].sunk) = calls[c].pos
      /\ \A i \in 1..Len(calls[c].sunk) :
           calls[c].sunk[i].text = calls[c].stream.chunks[i].content
      /\ Succeeded(c) => Len(calls[c].sunk) = Len(calls[c].stream.chunks)

C5_Witness ==
  /\ IsStream(1) /\ calls[1].hasSink /\ Succeeded(1)
  /\ calls[1].stream.chunks = <<[content |-> <<"Hel">>], [content |-> <<"lo">>], [content |-> <<>>]>>
  /\ Len(calls[1].sunk) = 3

RECURSIVE Concat(_)
Concat(chunks) ==
  IF chunks = <<>> THEN <<>> ELSE Head(chunks).content \o Concat(Tail(chunks))

\* C6: the text translateStreamRaw returns is the concatenation of the
\* increments' texts, and each value handed to the sink is the increment's
\* text, also for an increment whose text is empty.
C6_Concatenation ==
  \A c \in Calls :
    IsStream(c) =>
      /\ \A i \in 1..Len(calls[c].sunk) :
           calls[c].sunk[i] = [kind |-> "string", text |-> calls[c].stream.chunks[i].content]
      /\ Succeeded(c) => calls[c].result.translated_text = Concat(calls[c].stream.chunks)

IsTranslate(c) == calls[c].method = "translate"

\* C7: HinglishChainPro.translate reports output that is not JSON with an
\* error that differs from the one it reports for JSON that violates the
\* schema.
C7_UnparseableDistinct ==
  \A c, d \in Calls :
    ( /\ klass = "HinglishChainPro"
      /\ IsTranslate(c) /\ Failed(c) /\ calls[c].raw = ParserSyntaxError
      /\ IsTranslate(d) /\ Failed(d) /\ calls[d].raw = ParserSchemaError )
      => calls[c].error # calls[d].error

\* The messages with which a failure of the model to answer in the expected
\* shape surfaces from HinglishChainPro.
ShapeMessages ==
  {InvalidJsonMsg} \cup
  {<<"Failed after ", ToString(n), " attempts: ">> \o InvalidJsonMsg : n \in 1..(MaxRetriesOpt + DefaultMaxRetries)}

\* C8: on every call path of HinglishChainPro the message of a shape failure
\* is one of ShapeMessages and the message of a connectivity failure is not:
\* no message reports both.
C8_ConnectivityVsShape ==
  \A c \in Calls :
    (klass = "HinglishChainPro" /\ Failed(c)) =>
      /\ calls[c].raw \in ParserErrors => calls[c].error.message \in ShapeMessages
      /\ calls[c].raw \in TransportErrors => calls[c].error.message \notin ShapeMessages

C8_Witness ==
  /\ klass = "HinglishChainPro" /\ IsRetry(1) /\ Failed(1)
  /\ maxRetries = 2
  /\ calls[1].raws = <<TransportError("ECONNREFUSED"), ParserSyntaxError>>

\* C9: translate, translateStreamRaw and chat surface a collaborator error
\* whose code is one of the four transport codes as the error of that code
\* (for ECONNREFUSED translate's own message counts too), and surface an
\* error of unknown class with its original message.
C9_TransportMapped ==
  \A c \in Calls :
    ( /\ klass = "HinglishChainPro" /\ Failed(c)
      /\ calls[c].method \in {"translate", "translateStreamRaw", "chat"} )
      => /\ calls[c].raw \in TransportErrors =>
              \/ calls[c].error.message = errorMap[calls[c].raw.code]
              \/ calls[c].raw.code = "ECONNREFUSED" /\ calls[c].error.message = NotRunningMsg
         /\ calls[c].raw \in UnknownErrors => calls[c].error.message = calls[c].raw.message

C11_NoCaching ==
  LET over == {c \in Calls : Done(c)}
      RECURSIVE Sum(_)
      Sum(S) == IF S = {} THEN 0
                ELSE LET c == CHOOSE x \in S : TRUE
                     IN calls[c].collabCalls + Sum(S \ {c})
  IN /\ \A c \in Calls :
          IsTranslate(c) =>
            calls[c].collabCalls = (IF calls[c].pc \in {"awaitModel", "done"} THEN 1 ELSE 0)
     /\ Sum(over) = Cardinality(over)

C11_Witness ==
  /\ Succeeded(1) /\ Succeeded(2)
  /\ calls[1].text = calls[2].text
  /\ calls[1].collabCalls + calls[2].collabCalls = 2

\* The attempts of call c that have failed, as its position tells: all before
\* the current one, and the current one too while the call waits to retry.
FailedAttempts(c) == IF calls[c].pc = "delay" THEN calls[c].attempt ELSE calls[c].attempt - 1

\* Collaborator calls of call c that have neither failed nor returned.
Outstanding(c) ==
  calls[c].collabCalls - Len(calls[c].raws) - (IF Succeeded(c) THEN 1 ELSE 0)

\* C12: a call of translate, translateWithRetry or translateStreamRaw never
\* has more than one collaborator call outstanding; attempt n + 1 exists only
\* when n attempts have failed; one streaming call is open while the stream
\* is read.
C12_OneOutstanding ==
  \A c \in Calls :
    calls[c].method \in {"translate", "translateWithRetry", "translateStreamRaw"} =>
      /\ calls[c].collabCalls >= Len(calls[c].raws)
      /\ Outstanding(c) = (IF calls[c].request.open THEN 1 ELSE 0)
      /\ (IsRetry(c) /\ ~Done(c)) => Len(calls[c].raws) = FailedAttempts(c)
      /\ calls[c].pc = "streaming" => (calls[c].request.open /\ calls[c].collabCalls = 1)

C12_Witness ==
  /\ IsRetry(1) /\ calls[1].attempt = 3 /\ calls[1].pc = "awaitModel"
  /\ Len(calls[1].raws) = 2 /\ calls[1].collabCalls = 3

\* C13: retry state is per call.  A call that starts has attempt 1 and no
\* last error, whatever the slot held before; while calls overlap, each
\* call's attempt number counts its own failures and its last error is the
\* error of its own latest failure; an exhausted call has made maxRetries
\* attempts of its own.
C13_FreshRetryState ==
  /\ [][\A c \in Calls :
          (Finished(c) /\ ~Finished(c)')
            => (calls[c].attempt' = 1 /\ calls[c].lastError' = NoError
                  /\ calls[c].collabCalls' = 0)]_vars
  /\ [](\A c \in Calls :
          IsRetry(c) =>
            /\ ~Done(c) => FailedAttempts(c) = Len(calls[c].raws)
            /\ calls[c].raws # <<>> =>
                 calls[c].lastError = TranslateThrows(calls[c].raws[Len(calls[c].raws)])
            /\ (Failed(c) /\ IsExhaustedError(calls[c].error)) => calls[c].collabCalls = maxRetries)

C13_Witness ==
  /\ IsRetry(1) /\ IsRetry(2)
  /\ calls[1].pc = "delay" /\ calls[1].attempt = 2 /\ calls[1].lastError = ServerError
  /\ calls[2].pc = "awaitModel" /\ calls[2].attempt = 1 /\ calls[2].lastError = NoError

\* C19: translateWithRetry moves Attempting(n) -> Success, Attempting(n + 1)
\* or Exhausted, starting at Attempting(1).  The attempt number stays within
\* 1..maxRetries, changes only by +1 and only when attempt n has failed, and
\* the retries-exhausted error is thrown only from attempt maxRetries.
C19_AttemptStateMachine ==
  /\ [](\A c \in Calls :
          IsRetry(c) =>
            /\ calls[c].attempt >= 1 /\ calls[c].attempt <= maxRetries
            /\ (Failed(c) /\ IsExhaustedError(calls[c].error)) =>
                 (calls[c].attempt = maxRetries /\ Len(calls[c].raws) = maxRetries))
  /\ [][\A c \in Calls :
          /\ (Finished(c) /\ IsRetry(c)' /\ ~Finished(c)') => calls[c].attempt' = 1
          /\ (IsRetry(c) /\ ~Finished(c) /\ calls[c].attempt' # calls[c].attempt) =>
               /\ calls[c].attempt' = calls[c].attempt + 1
               /\ Len(calls[c].raws) = calls[c].attempt
               /\ ~Done(c)']_vars

C19_Witness ==
  /\ IsRetry(1) /\ Failed(1) /\ IsExhaustedError(calls[1].error)
  /\ maxRetries = 3 /\ calls[1].attempt = 3 /\ calls[1].waits = 2

\* Collaborator calls of call c that have returned a value.
Returned(c) ==
  calls[c].collabCalls - Len(calls[c].raws) - (IF calls[c].request.open THEN 1 ELSE 0)

\* C20: as soon as attempt k of translateWithRetry has returned a value, after
\* k - 1 failed attempts, the call is over with that value as its result and
\* the collaborator has been called exactly k times.
C20_SuccessEndsCall ==
  \A c \in Calls :
    IsRetry(c) =>
      /\ Returned(c) \in {0, 1}
      /\ Returned(c) = 1 =>
           /\ Succeeded(c)
           /\ calls[c].collabCalls = calls[c].attempt
           /\ calls[c].collabCalls = Len(calls[c].raws) + 1
           /\ calls[c].result = Translation(calls[c].text)
      /\ Succeeded(c) => Returned(c) = 1

C20_Witness ==
  /\ IsRetry(1) /\ Succeeded(1)
  /\ calls[1].attempt = 3 /\ calls[1].collabCalls = 3 /\ Len(calls[1].raws) = 2
  /\ calls[1].result = Translation(calls[1].text)

\* ---------------------------------------------------------------------------
\* hinglishResponseSchema: the zod schema the StructuredOutputParser validates
\* the model's JSON against.
\* ---------------------------------------------------------------------------

\* JSON values.  Numbers are held in hundredths (0.92 is 92, 1.5 is 150).
Absent == [type |-> "undefined", str |-> "", num |-> 0, items |-> <<>>]
Null == [type |-> "null", str |-> "", num |-> 0, items |-> <<>>]
Str(s) == [type |-> "string", str |-> s, num |-> 0, items |-> <<>>]
Num(n) == [type |-> "number", str |-> "", num |-> n, items |-> <<>>]
Arr(items) == [type |-> "array", str |-> "", num |-> 0, items |-> items]

\* z.string(), z.number().min(lo).max(hi), z.array(z.string()), .default([]),
\* .optional()
ZString ==
  [type |-> "string", element |-> "", ranged |-> FALSE, min |-> 0, max |-> 0,
   default |-> FALSE, optional |-> FALSE]
ZNumberMinMax(lo, hi) == [ZString EXCEPT !.type = "number", !.ranged = TRUE, !.min = lo, !.max = hi]
ZArrayOfString == [ZString EXCEPT !.type = "array", !.element = "string"]
ZDefaultEmpty(node) == [node EXCEPT !.default = TRUE]
ZOptional(node) == [node EXCEPT !.optional = TRUE]

SchemaKeys ==
  {"translated_text", "detected_language", "confidence", "alternative_translations",
   "cultural_notes"}

hinglishResponseSchema ==
  [translated_text |-> ZString,
   detected_language |-> ZString,
   confidence |-> ZNumberMinMax(0, 100),
   alternative_translations |-> ZDefaultEmpty(ZArrayOfString),
   cultural_notes |-> ZOptional(ZString)]

Issue(code, path) == [code |-> code, path |-> path]

\* .min(lo).max(hi): both ends inclusive
CheckNumber_Exclusive(node, value, path) ==
  (IF node.ranged /\ value.num <= node.min THEN {Issue("too_small", path)} ELSE {})
    \cup (IF node.ranged /\ value.num >= node.max THEN {Issue("too_big", path)} ELSE {})

CheckNumber(node, value, path) ==
  (IF node.ranged /\ value.num < node.min THEN {Issue("too_small", path)} ELSE {})
    \cup (IF node.ranged /\ value.num > node.max THEN {Issue("too_big", path)} ELSE {})

\* the issues of one value against one schema node
ParseType(node, value, path) ==
  IF value.type # node.type
    THEN {Issue("invalid_type", path)}
    ELSE CASE node.type = "number" -> CheckNumber(node, value, path)
           [] node.type = "array" ->
                {Issue("invalid_type", path \o <<ToString(i - 1)>>) :
                   i \in {j \in DOMAIN value.items : value.items[j].type # node.element}}
           [] OTHER -> {}

\* an undefined value is taken by .default([]) and by .optional(); null is not
ParseField(node, value, path) ==
  IF value = Absent /\ (node.default \/ node.optional)
    THEN {}
    ELSE ParseType(node, value, path)

OutputField_NoDefault(node, value) == value

OutputField(node, value) ==
  IF value = Absent /\ node.default THEN Arr(<<>>) ELSE value

NoData == [k \in SchemaKeys |-> Absent]

\* schema.safeParse(candidate): every issue is collected, keys the schema does
\* not declare are dropped from the value
SchemaParse(candidate) ==
  IF candidate.shape # "object"
    THEN [success |-> FALSE, data |-> NoData, issues |-> {Issue("invalid_type", <<>>)}]
    ELSE LET issues ==
               UNION {ParseField(hinglishResponseSchema[k], candidate.fields[k], <<k>>) :
                        k \in SchemaKeys}
         IN  IF issues = {}
               THEN [success |-> TRUE,
                     data |-> [k \in SchemaKeys |->
                                 OutputField(hinglishResponseSchema[k], candidate.fields[k])],
                     issues |-> {}]
               ELSE [success |-> FALSE, data |-> NoData, issues |-> issues]

\* The candidates: what JSON.parse may hand to the schema.
Candidates ==
  {[shape |-> "object",
    fields |-> [translated_text |-> t, detected_language |-> d, confidence |-> c,
                alternative_translations |-> a, cultural_notes |-> n, emoji |-> e]] :
     t \in {Absent, Str("hi"), Num(5)},
     d \in {Absent, Str("hinglish")},
     c \in {Absent, Str("high")} \cup {Num(x) : x \in {0 - 1, 0, 92, 100, 101, 150}},
     a \in {Absent, Null, Str("yo"), Arr(<<>>), Arr(<<Str("hello")>>),
            Arr(<<Str("hello"), Num(100)>>)},
     n \in {Absent, Null, Str("casual"), Num(100)},
     e \in {Absent, Str("wave")}}
    \cup {[shape |-> k, fields |-> [f \in SchemaKeys \cup {"emoji"} |-> Absent]] :
            k \in {"array", "string", "null"}}

InitValidate ==
  /\ klass = "HinglishChainPro"
  /\ chain = NoChain
  /\ maxRetries = DefaultMaxRetries
  /\ calls = [c \in Calls |-> IdleCall]
  /\ validation \in {[pc |-> "candidate", candidate |-> c, outcome |-> [success |-> FALSE, data |-> NoData, issues |-> {}]] :
                       c \in Candidates}
  /\ rendering = Unused
  /\ session = Unused
  /\ retryDelay = DefaultRetryDelay
  /\ speedTest = Unused
  /\ verification = Unused
  /\ analysis = Unused

\* the parser validates the candidate in hand
ParserValidate ==
  /\ validation.pc = "candidate"
  /\ validation' = [validation EXCEPT !.pc = "validated",
                                      !.outcome = SchemaParse(validation.candidate)]
  /\ UNCHANGED <<klass, chain, maxRetries, calls, rendering, session,
               retryDelay, speedTest, verification, analysis>>

NextValidate == ParserValidate

SpecValidate == InitValidate /\ [][NextValidate]_vars

\* ---------------------------------------------------------------------------
\* Properties of the schema
\* ---------------------------------------------------------------------------

Validated == validation.pc = "validated" /\ validation.candidate.shape = "object"

IsStringValue(value) == value.type = "string"
IsStringArray(value) ==
  value.type = "array" /\ \A i \in DOMAIN value.items : value.items[i].type = "string"
InUnitRange(value) == value.type = "number" /\ value.num >= 0 /\ value.num <= 100

RequiredStringsOk(fields) ==
  IsStringValue(fields.translated_text) /\ IsStringValue(fields.detected_language)
AlternativesOk(fields) ==
  fields.alternative_translations = Absent \/ IsStringArray(fields.alternative_translations)
NotesOk(fields) ==
  fields.cultural_notes = Absent \/ IsStringValue(fields.cultural_notes)

RangeIssues(outcome) ==
  {i \in outcome.issues : i.path = <<"confidence">> /\ i.code \in {"too_small", "too_big"}}

\* C14: a candidate whose required strings are present, whose optional fields
\* are absent or of their declared type and whose confidence is a number in
\* [0, 1], 0 and 1 included, is accepted with every field it carries
\* unchanged; a candidate whose confidence is a number outside [0, 1] is
\* rejected with a range issue on the field confidence.
C14_ConfidenceRange ==
  Validated =>
    LET fields == validation.candidate.fields
        outcome == validation.outcome
    IN  /\ (RequiredStringsOk(fields) /\ AlternativesOk(fields) /\ NotesOk(fields)
              /\ InUnitRange(fields.confidence)) =>
             /\ outcome.success
             /\ \A k \in SchemaKeys : fields[k] # Absent => outcome.data[k] = fields[k]
        /\ (fields.confidence.type = "number" /\ ~InUnitRange(fields.confidence)) =>
             /\ ~outcome.success
             /\ RangeIssues(outcome) =
                  {Issue(IF fields.confidence.num < 0 THEN "too_small" ELSE "too_big",
                         <<"confidence">>)}
        /\ InUnitRange(fields.confidence) => RangeIssues(outcome) = {}

C14_Witness ==
  /\ Validated
  /\ validation.candidate.fields.translated_text = Str("hi")
  /\ validation.candidate.fields.detected_language = Absent
  /\ validation.candidate.fields.confidence = Num(150)
  /\ ~validation.outcome.success
  /\ Issue("too_big", <<"confidence">>) \in validation.outcome.issues

\* C15: omitting alternative_translations gives a valid value whose
\* alternative_translations is the empty sequence, omitting cultural_notes
\* gives a valid value without cultural_notes, and an omitted optional field
\* never raises an issue.
C15_OptionalDefaults ==
  Validated =>
    LET fields == validation.candidate.fields
        outcome == validation.outcome
        restOk == RequiredStringsOk(fields) /\ InUnitRange(fields.confidence)
    IN  /\ (fields.alternative_translations = Absent /\ restOk /\ NotesOk(fields)) =>
             (outcome.success /\ outcome.data.alternative_translations = Arr(<<>>))
        /\ (fields.cultural_notes = Absent /\ restOk /\ AlternativesOk(fields)) =>
             (outcome.success /\ outcome.data.cultural_notes = Absent)
        /\ \A k \in {"alternative_translations", "cultural_notes"} :
             fields[k] = Absent => \A i \in outcome.issues : i.path[1] # k

C15_Witness ==
  /\ Validated
  /\ validation.candidate.fields.alternative_translations = Absent
  /\ validation.candidate.fields.cultural_notes = Absent
  /\ validation.candidate.fields.confidence = Num(92)
  /\ validation.outcome.success
  /\ validation.outcome.data.alternative_translations = Arr(<<>>)
  /\ validation.outcome.data.cultural_notes = Absent

\* ---------------------------------------------------------------------------
\* Rendering a ChatPromptTemplate.  Message text is a sequence of lexemes: "{"
\* and "}" are the braces, every other lexeme is a run of text without braces.
\* ---------------------------------------------------------------------------


\* The f-string parse of a message: "{" name "}" is a variable, every other
\* lexeme is literal text.
RECURSIVE ParseFString(_)
ParseFString(text) ==
  IF text = <<>> THEN <<>>
  ELSE IF Len(text) >= 3 /\ text[1] = "{" /\ text[3] = "}"
         THEN <<[type |-> "variable", text |-> text[2]]>> \o ParseFString(SubSeq(text, 4, Len(text)))
         ELSE <<[type |-> "literal", text |-> Head(text)]>> \o ParseFString(Tail(text))

\* promptTemplate of agent-chat's processMessage
AgentChatTemplate ==
  << [role |-> "system",
      text |-> <<"The user said: ", "{", "user_input", "}",
                 " - It means: ", "{", "translation", "}",
                 " - They're feeling: ", "{", "sentiment", "}",
                 " (", "{", "intensity", "}", "/10 intensity) ",
                 "{", "cultural_context", "}",
                 " Text back like a real friend would">>],
     [role |-> "user", text |-> <<"{", "user_input", "}">>] >>

\* prompt of the fast chat's processMessage
FastChatTemplate ==
  << [role |-> "system",
      text |-> <<"Text back like a friend. They said: ", "{", "input", "}",
                 " (feeling ", "{", "sentiment", "}", "). Casual, warm, short.">>],
     [role |-> "user", text |-> <<"{", "input", "}">>] >>

\* prompt of HinglishChainPro.init, before .partial
InitTemplate ==
  << [role |-> "system",
      text |-> <<"You are a curious, supportive friend ", "{", "format_instructions", "}">>],
     [role |-> "user", text |-> <<"{", "hinglish_text", "}">>] >>

\* prompt of HinglishChainPro.chat with a history message that has braces
ChatHistoryTemplate ==
  << [role |-> "system", text |-> <<"You are a warm, curious friend">>],
     [role |-> "human", text |-> <<"call me ", "{", "name", "}">>],
     [role |-> "user", text |-> <<"{", "message", "}">>] >>

TemplateOf(site) ==
  CASE site = "agent-chat" -> AgentChatTemplate
    [] site = "fast-chat" -> FastChatTemplate
    [] site = "init" -> InitTemplate
    [] site = "chat" -> ChatHistoryTemplate

RenderNames ==
  {"user_input", "is_hinglish", "translation", "sentiment", "intensity", "cultural_context",
   "input", "format_instructions", "hinglish_text", "message", "name"}

Unbound == [bound |-> FALSE, value |-> <<>>]
Bound(value) == [bound |-> TRUE, value |-> value]

\* What the user may type: plain text, nothing, text with braces.
UserTexts == {<<"kya baat hai">>, <<>>, <<"{", "name", "}">>, <<"}", "{">>}

\* parser.getFormatInstructions(): prose followed by the JSON schema
FormatInstructions ==
  <<"You must format your output as a JSON value: ", "{", "\"type\":\"object\"", "}">>

\* The bindings a site may be rendered with: for each name, one of its values
\* or no binding.
BindingsOf(site) ==
  LET Blank == [n \in RenderNames |-> Unbound]
      OneOf(values) == {Unbound} \cup {Bound(v) : v \in values}
  IN  CASE site = "agent-chat" ->
             {[Blank EXCEPT !["user_input"] = u, !["is_hinglish"] = h, !["translation"] = t,
                            !["sentiment"] = s, !["intensity"] = i,
                            !["cultural_context"] = k] :
                u \in OneOf(UserTexts), h \in OneOf({<<"Yes">>}),
                t \in OneOf({<<>>, <<"what's up">>}), s \in OneOf({<<"positive">>}),
                i \in OneOf({<<ToString(7)>>}),
                k \in OneOf({<<"- No special context">>})}
        [] site = "fast-chat" ->
             {[Blank EXCEPT !["input"] = u, !["sentiment"] = s] :
                u \in OneOf(UserTexts), s \in OneOf({<<"positive">>, <<"neutral">>})}
        [] site = "init" ->
             {[Blank EXCEPT !["format_instructions"] = f, !["hinglish_text"] = u] :
                f \in OneOf({FormatInstructions}), u \in OneOf(UserTexts)}
        [] site = "chat" ->
             {[Blank EXCEPT !["message"] = u, !["name"] = n] :
                u \in OneOf(UserTexts), n \in OneOf({<<"Ramu">>})}

\* The input variables of a template.
VariablesOf(template) ==
  {n \in RenderNames :
     \E i \in 1..Len(template) :
       \E j \in 1..Len(ParseFString(template[i].text)) :
         ParseFString(template[i].text)[j] = [type |-> "variable", text |-> n]}

MissingVariables(template, bindings) ==
  {n \in VariablesOf(template) : ~bindings[n].bound}

\* One node of a parsed message: a variable gives its value as it is.
RenderNode_KeepEmpty(node, bindings) ==
  IF node.type = "variable" /\ bindings[node.text].value # <<>>
    THEN bindings[node.text].value
    ELSE IF node.type = "variable" THEN <<"{", node.text, "}">> ELSE <<node.text>>

RenderNode(node, bindings) ==
  IF node.type = "variable" THEN bindings[node.text].value ELSE <<node.text>>

RECURSIVE Interpolate(_, _)
Interpolate(nodes, bindings) ==
  IF nodes = <<>> THEN <<>>
  ELSE RenderNode(Head(nodes), bindings) \o Interpolate(Tail(nodes), bindings)

RenderMessages(template, bindings) ==
  [i \in 1..Len(template) |->
     [role |-> template[i].role,
      text |-> Interpolate(ParseFString(template[i].text), bindings)]]

MissingValue(name) ==
  [name |-> "Error", code |-> "undefined",
   message |-> <<"Missing value for input variable ", name>>]

InitRender ==
  /\ klass = "HinglishChainPro"
  /\ chain = NoChain
  /\ maxRetries = DefaultMaxRetries
  /\ calls = [c \in Calls |-> IdleCall]
  /\ validation = Unused
  /\ \E site \in {"agent-chat", "fast-chat", "init", "chat"} :
       rendering \in {[pc |-> "bound", site |-> site, bindings |-> b, messages |-> <<>>,
                       error |-> NoError] : b \in BindingsOf(site)}
  /\ session = Unused
  /\ retryDelay = DefaultRetryDelay
  /\ speedTest = Unused
  /\ verification = Unused
  /\ analysis = Unused

\* formatMessages with every input variable bound
RenderOk ==
  /\ rendering.pc = "bound"
  /\ MissingVariables(TemplateOf(rendering.site), rendering.bindings) = {}
  /\ rendering' = [rendering EXCEPT
       !.pc = "rendered",
       !.messages = RenderMessages(TemplateOf(rendering.site), rendering.bindings)]
  /\ UNCHANGED <<klass, chain, maxRetries, calls, validation, session,
               retryDelay, speedTest, verification, analysis>>

\* formatMessages meets an input variable without a value
RenderFail(name) ==
  /\ rendering.pc = "bound"
  /\ name \in MissingVariables(TemplateOf(rendering.site), rendering.bindings)
  /\ rendering' = [rendering EXCEPT !.pc = "failed", !.error = MissingValue(name)]
  /\ UNCHANGED <<klass, chain, maxRetries, calls, validation, session,
               retryDelay, speedTest, verification, analysis>>

NextRender ==
  \/ RenderOk
  \/ \E name \in RenderNames : RenderFail(name)

SpecRender == InitRender /\ [][NextRender]_vars

\* ---------------------------------------------------------------------------
\* Properties of rendering
\* ---------------------------------------------------------------------------

\* number of positions of text that hold lexeme
Count(text, lexeme) == Cardinality({i \in 1..Len(text) : text[i] = lexeme})

\* number of places of text where the placeholder of name stands
Occurrences(text, name) ==
  Cardinality({i \in 1..Len(text) :
                 i + 2 <= Len(text) /\ text[i] = "{" /\ text[i + 1] = name /\ text[i + 2] = "}"})

RECURSIVE SumOver(_, _, _)
SumOver(names, text, bindings) ==
  IF names = {} THEN 0
  ELSE LET n == CHOOSE x \in names : TRUE
       IN  Occurrences(text, n) * Len(bindings[n].value)
             + SumOver(names \ {n}, text, bindings)

RECURSIVE BracesOver(_, _, _)
BracesOver(names, text, bindings) ==
  IF names = {} THEN 0
  ELSE LET n == CHOOSE x \in names : TRUE
       IN  Occurrences(text, n) * Count(bindings[n].value, "{")
             + BracesOver(names \ {n}, text, bindings)

RECURSIVE PlacesOver(_, _)
PlacesOver(names, text) ==
  IF names = {} THEN 0
  ELSE LET n == CHOOSE x \in names : TRUE
       IN  Occurrences(text, n) + PlacesOver(names \ {n}, text)

\* the placeholder set P of the template being rendered
Placeholders ==
  {n \in RenderNames :
     \E i \in 1..Len(TemplateOf(rendering.site)) :
       Occurrences(TemplateOf(rendering.site)[i].text, n) > 0}

Covering == \A n \in Placeholders : rendering.bindings[n].bound

\* text holds a {...} token
HasBraceToken(text) ==
  \E i \in 1..Len(text) : \E j \in 1..Len(text) : i < j /\ text[i] = "{" /\ text[j] = "}"

\* C16 as stated: whenever the bindings cover P, the rendered messages hold no
\* {...} token, whatever the binding values are.
C16_NoResidualTokens ==
  rendering.pc = "rendered" =>
    \A i \in 1..Len(rendering.messages) : ~HasBraceToken(rendering.messages[i].text)

\* C16 amended: with bindings covering P rendering succeeds and every
\* placeholder of the template is replaced by its binding value, copied as it
\* is, so that the only braces of the output are those of the binding values;
\* with a member of P unbound, rendering fails with the missing-value error
\* for an unbound member of P.
C16_RenderTotality ==
  /\ rendering.pc = "rendered" =>
       /\ Covering
       /\ Len(rendering.messages) = Len(TemplateOf(rendering.site))
       /\ \A i \in 1..Len(rendering.messages) :
            LET source == TemplateOf(rendering.site)[i].text
                output == rendering.messages[i].text
            IN  /\ rendering.messages[i].role = TemplateOf(rendering.site)[i].role
                /\ Len(output) = Len(source) - 3 * PlacesOver(Placeholders, source)
                                   + SumOver(Placeholders, source, rendering.bindings)
                /\ Count(output, "{") = BracesOver(Placeholders, source, rendering.bindings)
                /\ \A k \in 1..Len(source) :
                     (source[k] \notin {"{", "}"} /\ source[k] \notin Placeholders) =>
                       Count(output, source[k]) >= 1
  /\ rendering.pc = "failed" =>
       /\ ~Covering
       /\ \E n \in Placeholders :
            ~rendering.bindings[n].bound /\ rendering.error = MissingValue(n)

C16_Witness ==
  /\ rendering.pc = "rendered"
  /\ rendering.site = "agent-chat"
  /\ rendering.bindings["user_input"] = Bound(<<"{", "name", "}">>)
  /\ rendering.messages[2].text = <<"{", "name", "}">>

\* ---------------------------------------------------------------------------
\* The chat loops: askQuestion of agent-chat and chat of the fast chat.  A line
\* typed by the user is a sequence of lexemes: runs of whitespace and words.
\* ---------------------------------------------------------------------------

MaxInputLen == 3

Whitespace == {" ", "\t"}
Inputs == UNION {[1..n -> Whitespace \cup {"quit", "Quit", "EXIT", "yaar"}] : n \in 0..MaxInputLen}

\* String.prototype.toLowerCase
ToLowerCase(input) ==
  LET lower(lexeme) ==
        CASE lexeme = "Quit" -> "quit"
          [] lexeme = "EXIT" -> "exit"
          [] OTHER -> lexeme
  IN  [i \in DOMAIN input |-> lower(input[i])]

\* String.prototype.trim
RECURSIVE TrimStart(_)
TrimStart(input) ==
  IF input # <<>> /\ Head(input) \in Whitespace THEN TrimStart(Tail(input)) ELSE input
RECURSIVE TrimEnd(_)
TrimEnd(input) ==
  IF input # <<>> /\ input[Len(input)] \in Whitespace
    THEN TrimEnd(SubSeq(input, 1, Len(input) - 1))
    ELSE input
Trim(input) == TrimEnd(TrimStart(input))

\* agent-chat: input.toLowerCase().trim() === "quit" || ... === "exit"
\* fast chat:  input.toLowerCase() === "quit"
IsQuitCommand_NoTrim(app, input) == ToLowerCase(input) = <<"quit">>

IsQuitCommand(app, input) ==
  IF app = "agent-chat"
    THEN Trim(ToLowerCase(input)) \in {<<"quit">>, <<"exit">>}
    ELSE ToLowerCase(input) = <<"quit">>

\* agent-chat: if (!input.trim()) { ...; askQuestion(); return; }
IsBlank(app, input) == app = "agent-chat" /\ Trim(input) = <<>>

\* What the loops do once processMessage has thrown: the catch block prints
\* the error and the loop asks again.
AfterFailure_Crash(app) == "exited"

AfterFailure(app) == "asking"

ChatErrors == {TransportError("ECONNREFUSED"), ServerError}

NewSession(app) ==
  [pc |-> "asking", app |-> app, input |-> <<>>, handled |-> "none", modelOpen |-> FALSE,
   outcome |-> "none", error |-> NoError, hint |-> FALSE, interrupted |-> FALSE]

InitChat ==
  /\ klass = "HinglishChainPro"
  /\ chain = NoChain
  /\ maxRetries = DefaultMaxRetries
  /\ calls = [c \in Calls |-> IdleCall]
  /\ validation = Unused
  /\ rendering = Unused
  /\ session \in {NewSession(app) : app \in {"agent-chat", "fast-chat"}}
  /\ retryDelay = DefaultRetryDelay
  /\ speedTest = Unused
  /\ verification = Unused
  /\ analysis = Unused

\* The callback of rl.question up to its first await, return or exit.
UserInput(input) ==
  /\ session.pc = "asking"
  /\ session' =
       IF IsQuitCommand(session.app, input)
         THEN [NewSession(session.app) EXCEPT !.pc = "exited", !.input = input,
                                              !.handled = "quit"]
         ELSE IF IsBlank(session.app, input)
           THEN [NewSession(session.app) EXCEPT !.input = input, !.handled = "blank"]
           ELSE [NewSession(session.app) EXCEPT !.pc = "thinking", !.input = input,
                                                !.handled = "model", !.modelOpen = TRUE]
  /\ UNCHANGED <<klass, chain, maxRetries, calls, validation, rendering,
               retryDelay, speedTest, verification, analysis>>

\* processMessage returns: the reply is printed and the loop asks again.  The
\* callback and its input end here.
ModelResponds ==
  /\ session.pc = "thinking"
  /\ session' = [session EXCEPT !.pc = "asking", !.input = <<>>, !.modelOpen = FALSE,
                                !.outcome = "response"]
  /\ UNCHANGED <<klass, chain, maxRetries, calls, validation, rendering,
               retryDelay, speedTest, verification, analysis>>

\* processMessage throws: catch (error) { console.error(...) }, then the loop
\* asks again.
ModelFails(error) ==
  /\ session.pc = "thinking"
  /\ session' = [session EXCEPT !.pc = AfterFailure(session.app), !.input = <<>>,
                                !.modelOpen = FALSE,
                                !.outcome = "error", !.error = error,
                                !.hint = (session.app = "agent-chat"
                                            /\ error.code = "ECONNREFUSED")]
  /\ UNCHANGED <<klass, chain, maxRetries, calls, validation, rendering,
               retryDelay, speedTest, verification, analysis>>

\* process.on('SIGINT', ...) of agent-chat
Sigint ==
  /\ session.app = "agent-chat"
  /\ session.pc \in {"asking", "thinking"}
  /\ session' = [session EXCEPT !.pc = "exited", !.interrupted = TRUE]
  /\ UNCHANGED <<klass, chain, maxRetries, calls, validation, rendering,
               retryDelay, speedTest, verification, analysis>>

NextChat ==
  \/ \E input \in Inputs : UserInput(input)
  \/ ModelResponds
  \/ \E error \in ChatErrors : ModelFails(error)
  \/ Sigint

SpecChat == InitChat /\ [][NextChat]_vars

\* The model call of processMessage ends, with a reply or with an error.
SpecChatFair == SpecChat /\ WF_vars(ModelResponds \/ \E error \in ChatErrors : ModelFails(error))

\* ---------------------------------------------------------------------------
\* Properties of the chat loops
\* ---------------------------------------------------------------------------

\* input is 'quit' or 'exit' in any letter case with only whitespace around it
IsQuitLine(input) ==
  \E i \in 1..Len(input) :
    /\ input[i] \in {"quit", "Quit", "exit", "EXIT"}
    /\ \A j \in 1..Len(input) : j # i => input[j] \in Whitespace

\* C17: in agent-chat a line that is quit or exit, whatever its letter case
\* and the whitespace around it, ends the session with no model call for it
\* and nothing happens afterwards; no other line ends the session.
C17_QuitEndsSession ==
  /\ [](session.app = "agent-chat" /\ session.handled # "none" =>
          /\ IsQuitLine(session.input) <=> session.handled = "quit"
          /\ session.handled = "quit" =>
               (session.pc = "exited" /\ ~session.modelOpen /\ session.outcome = "none")
          /\ (session.pc = "exited" /\ ~session.interrupted) => session.handled = "quit")
  /\ [][session.pc = "exited" => session' = session]_vars

C17_Witness ==
  /\ session.app = "agent-chat"
  /\ session.input = <<" ", "EXIT", "\t">>
  /\ session.handled = "quit"
  /\ session.pc = "exited"
  /\ ~session.interrupted

Thinking == session.pc = "thinking"
Asking == session.pc = "asking"

\* C18: in both loops a model call that was started ends with the next
\* prompt, whether processMessage returned or threw, unless the process is
\* interrupted; the prompt that follows an input sent to the model is issued
\* only when its model call is over; a failure never ends the session.
C18_FailureKeepsSession ==
  /\ Thinking ~> (Asking \/ session.interrupted)
  /\ [](Thinking => session.modelOpen /\ session.outcome = "none")
  /\ []((Asking /\ session.handled = "model") =>
          (~session.modelOpen /\ session.outcome \in {"response", "error"}))
  /\ [](session.outcome = "error" => (Asking \/ session.interrupted))
  /\ [][(Thinking /\ ~Thinking') =>
          (Asking' \/ session.interrupted')]_vars

C18_Witness ==
  /\ session.app = "fast-chat"
  /\ Asking
  /\ session.handled = "model"
  /\ session.outcome = "error"
  /\ session.error = TransportError("ECONNREFUSED")

\* ---------------------------------------------------------------------------
\* translateWithRetry on an instance built with the retry options
\* ---------------------------------------------------------------------------

\* new HinglishChainPro(modelName, { maxRetries, retryDelay })
InitRetry ==
  /\ klass = "HinglishChainPro"
  /\ chain = NoChain
  /\ maxRetries \in {MaxRetriesOf(opt) : opt \in 0..MaxRetriesOpt}
  /\ retryDelay \in {RetryDelayOf(opt) : opt \in {0, 250}}
  /\ calls = [c \in Calls |-> IdleCall]
  /\ Elsewhere

NextRetry ==
  \/ StartTranslateWithRetry(1, RetryText)
  \/ InitBuild(1)
  \/ Invoke(1)
  \/ RetryReturn(1)
  \/ \E error \in ChainErrors : RetryFail(1, error)
  \/ RetryDelayElapsed(1)

SpecRetry == InitRetry /\ [][NextRetry]_vars

\* The attempts of call c that have ended, all of them failures unless the
\* call succeeded.
EndedAttempts(c) == Len(calls[c].raws) + (IF Succeeded(c) THEN 1 ELSE 0)

\* C21: translateWithRetry waits this.retryDelay once between two consecutive
\* attempts and nowhere else: attempt n is preceded by n - 1 waits, a wait is
\* started only by a failed attempt that another attempt follows, a call that
\* ended has waited once less than it made attempts, and a call that used up
\* maxRetries attempts has waited maxRetries - 1 times.
C21_WaitBetweenAttempts ==
  /\ [](\A c \in Calls :
          IsRetry(c) =>
            /\ Len(calls[c].delays) = calls[c].waits
            /\ \A i \in 1..Len(calls[c].delays) : calls[c].delays[i] = retryDelay
            /\ calls[c].pc = "delay" =>
                 (calls[c].waits = Len(calls[c].raws) /\ calls[c].attempt < maxRetries)
            /\ (~Done(c) /\ calls[c].pc # "delay") => calls[c].waits = calls[c].attempt - 1
            /\ Done(c) => calls[c].waits = EndedAttempts(c) - 1
            /\ (Failed(c) /\ IsExhaustedError(calls[c].error)) =>
                 calls[c].waits = maxRetries - 1)
  /\ [][\A c \in Calls :
          (IsRetry(c) /\ IsRetry(c)' /\ ~Finished(c)) =>
            /\ calls[c].waits' # calls[c].waits =>
                 /\ calls[c].waits' = calls[c].waits + 1
                 /\ Len(calls[c].raws') = Len(calls[c].raws) + 1
                 /\ calls[c].pc' = "delay"
            /\ calls[c].pc = "delay" =>
                 (calls[c].pc' # "done" /\ calls[c].attempt' = calls[c].attempt + 1)]_vars

C21_Witness ==
  /\ IsRetry(1) /\ Failed(1) /\ IsExhaustedError(calls[1].error)
  /\ maxRetries = 3 /\ retryDelay = 250
  /\ calls[1].collabCalls = 3
  /\ calls[1].delays = <<250, 250>>

\* C22: the chain of an instance is built at most once: once this.chain is
\* set, no init or translate call assigns it again.
C22_ChainBuiltOnce ==
  [][chain # NoChain => chain' = chain]_vars

IsPrefix(short, long) ==
  Len(short) <= Len(long) /\ \A i \in 1..Len(short) : short[i] = long[i]

\* C27: when the stream of translateStreamRaw raises after k increments, the
\* sink has received one call for each of the k increments, in stream order;
\* calls made to the sink are never taken back or repeated; the call gives no
\* result and throws the one error handleError makes of the stream's error.
C27_StreamFailure ==
  /\ [](\A c \in Calls :
          (IsStream(c) /\ Failed(c)) =>
            /\ calls[c].stream.error # NoError
            /\ calls[c].pos = Len(calls[c].stream.chunks)
            /\ calls[c].hasSink =>
                 /\ Len(calls[c].sunk) = Len(calls[c].stream.chunks)
                 /\ \A i \in 1..Len(calls[c].sunk) :
                      calls[c].sunk[i].text = calls[c].stream.chunks[i].content
            /\ calls[c].result = NoResult
            /\ calls[c].raws = <<calls[c].stream.error>>
            /\ calls[c].error = handleError(calls[c].stream.error)
            /\ calls[c].collabCalls = 1)
  /\ [][\A c \in Calls :
          (IsStream(c) /\ IsStream(c)' /\ ~Finished(c)) =>
            /\ IsPrefix(calls[c].sunk, calls[c].sunk')
            /\ Len(calls[c].sunk') <= Len(calls[c].sunk) + 1
            /\ Done(c)' => calls[c].sunk' = calls[c].sunk]_vars

C27_Witness ==
  /\ IsStream(1) /\ calls[1].hasSink /\ Failed(1)
  /\ calls[1].stream.chunks = <<[content |-> <<"Hel">>], [content |-> <<"lo">>]>>
  /\ calls[1].stream.error = TransportError("ECONNRESET")
  /\ Len(calls[1].sunk) = 2
  /\ calls[1].result = NoResult

IsChat(c) == calls[c].method = "chat"

\* C28: chat(message, history) takes the texts of the history as they are:
\* whatever the history, the prompt renders with the binding message alone,
\* the request is sent, and every history text is in the request unchanged.
C28_HistoryLiteral ==
  \A c \in Calls :
    IsChat(c) =>
      /\ calls[c].pc = "awaitModel" =>
           /\ calls[c].request.open
           /\ Len(calls[c].request.input) = Len(calls[c].history) + 2
           /\ \A i \in 1..Len(calls[c].history) :
                calls[c].request.input[i + 1] = calls[c].history[i]
      /\ Failed(c) => calls[c].raw \notin {TemplateError(v) : v \in PlaceholderTokens}

\* ---------------------------------------------------------------------------
\* setup-verification.js: the five checks and the summary
\* ---------------------------------------------------------------------------

requiredPackages == {"@langchain/core", "@langchain/ollama", "zod"}

\* The script starts on some machine: whether `ollama --version` and the curl
\* of the server succeed, what `ollama list` gives (an error, the header line
\* alone, or models), whether the model answers, which packages are missing.
InitVerify ==
  /\ klass = "HinglishChainPro"
  /\ chain = NoChain
  /\ maxRetries = DefaultMaxRetries
  /\ retryDelay = DefaultRetryDelay
  /\ calls = [c \in Calls |-> IdleCall]
  /\ validation = Unused
  /\ rendering = Unused
  /\ session = Unused
  /\ speedTest = Unused
  /\ verification \in
       [pc : {"load"},
        env : [cli : BOOLEAN, server : BOOLEAN, list : {"error", "empty", "models"},
               llm : BOOLEAN, missing : SUBSET requiredPackages],
        allPassed : {FALSE}, ran : {{}}, missingDeps : {{}}, report : {"none"}]
  /\ analysis = Unused

\* The static import of @langchain/ollama resolves; let allPassed = true
VerifyLoad ==
  /\ verification.pc = "load"
  /\ "@langchain/ollama" \notin verification.env.missing
  /\ verification' = [verification EXCEPT !.pc = "check1", !.allPassed = TRUE]
  /\ UNCHANGED <<klass, chain, maxRetries, calls, validation, rendering, session,
               retryDelay, speedTest, analysis>>

\* The static import of @langchain/ollama does not resolve: the script ends
\* before its first statement.
VerifyLoadFails ==
  /\ verification.pc = "load"
  /\ "@langchain/ollama" \in verification.env.missing
  /\ verification' = [verification EXCEPT !.pc = "crashed"]
  /\ UNCHANGED <<klass, chain, maxRetries, calls, validation, rendering, session,
               retryDelay, speedTest, analysis>>

\* One of the try/catch checks: catch sets allPassed = false.
Checked(v, n, next, threw) ==
  [v EXCEPT !.pc = next, !.ran = @ \cup {n},
            !.allPassed = IF threw THEN FALSE ELSE @]

\* TEST 1: execSync("ollama --version")
CheckCli ==
  /\ verification.pc = "check1"
  /\ verification' = Checked(verification, 1, "check2", ~verification.env.cli)
  /\ UNCHANGED <<klass, chain, maxRetries, calls, validation, rendering, session,
               retryDelay, speedTest, analysis>>

\* TEST 2: execSync("curl -s http://localhost:11434")
CheckServer ==
  /\ verification.pc = "check2"
  /\ verification' = Checked(verification, 2, "check3", ~verification.env.server)
  /\ UNCHANGED <<klass, chain, maxRetries, calls, validation, rendering, session,
               retryDelay, speedTest, analysis>>

\* TEST 3: execSync("ollama list"); with no model line a warning is printed
CheckModels ==
  /\ verification.pc = "check3"
  /\ verification' = Checked(verification, 3, "check4", verification.env.list = "error")
  /\ UNCHANGED <<klass, chain, maxRetries, calls, validation, rendering, session,
               retryDelay, speedTest, analysis>>

\* TEST 4: await llm.invoke("Hi!")
CheckLlm ==
  /\ verification.pc = "check4"
  /\ verification' = Checked(verification, 4, "check5", ~verification.env.llm)
  /\ UNCHANGED <<klass, chain, maxRetries, calls, validation, rendering, session,
               retryDelay, speedTest, analysis>>

\* TEST 5: await import(pkg) for each required package, then
\* if (missingDeps.length > 0) allPassed = false
CheckDependencies ==
  /\ verification.pc = "check5"
  /\ LET missingDeps == requiredPackages \cap verification.env.missing
     IN verification' =
          [Checked(verification, 5, "summary", missingDeps # {})
             EXCEPT !.missingDeps = missingDeps]
  /\ UNCHANGED <<klass, chain, maxRetries, calls, validation, rendering, session,
               retryDelay, speedTest, analysis>>

\* SUMMARY: if (allPassed) ... else ...
Summary ==
  /\ verification.pc = "summary"
  /\ verification' = [verification EXCEPT
       !.pc = "done",
       !.report = IF verification.allPassed THEN "ALL TESTS PASSED" ELSE "SOME TESTS FAILED"]
  /\ UNCHANGED <<klass, chain, maxRetries, calls, validation, rendering, session,
               retryDelay, speedTest, analysis>>

NextVerify ==
  \/ VerifyLoad
  \/ VerifyLoadFails
  \/ CheckCli
  \/ CheckServer
  \/ CheckModels
  \/ CheckLlm
  \/ CheckDependencies
  \/ Summary

SpecVerify == InitVerify /\ [][NextVerify]_vars

\* every one of the five checks finds what it looks for
AllChecksSucceed(env) ==
  /\ env.cli
  /\ env.server
  /\ env.list = "models"
  /\ env.llm
  /\ env.missing = {}

\* C25: the verification runs all five checks whatever they find, its summary
\* says ALL TESTS PASSED exactly when all five checks succeeded (with no model
\* installed it does not), and allPassed never goes back from false to true.
C25_AllPassedIffAllSucceeded ==
  /\ [](verification.pc \in {"done", "crashed"} =>
          /\ verification.ran = 1..5
          /\ verification.report = "ALL TESTS PASSED" <=> AllChecksSucceed(verification.env))
  /\ [][(verification.pc \notin {"load", "check1"} /\ ~verification.allPassed) =>
          ~verification.allPassed']_vars

\* ---------------------------------------------------------------------------
\* The sentiment tools: analyzeSentiment of agent-chat and quickAnalyze of the
\* fast chat.  A message is a sequence of words.
\* ---------------------------------------------------------------------------

MaxWords == 2

Vocabulary == {"mast", "nahi", "fun", "badiya", "Happy", "hate", "bohot", "yaar"}
Messages == UNION {[1..n -> Vocabulary] : n \in 0..MaxWords}

\* The keywords of the two tools that occur in a word of the vocabulary, as
\* text.includes(w) finds them after toLowerCase: "badiya" holds "bad" too.
KeywordsIn(word) ==
  CASE word = "mast" -> {"mast"}
    [] word = "nahi" -> {"nahi"}
    [] word = "fun" -> {"fun"}
    [] word = "badiya" -> {"badiya", "bad"}
    [] word = "Happy" -> {"happy"}
    [] word = "hate" -> {"hate"}
    [] word = "bohot" -> {"bohot"}
    [] OTHER -> {}

\* text.includes(w) for some w of the list
SomeIncluded(input, keywords) ==
  \E i \in 1..Len(input) : KeywordsIn(input[i]) \cap keywords # {}

analyzeSentiment(input) ==
  LET positive ==
        {"happy", "great", "mast", "good", "awesome", "excited", "love", "like", "enjoy",
         "badiya", "badhiya", "sahi", "acha", "maza", "fun"}
      negative ==
        {"sad", "bad", "thak", "tired", "hate", "angry", "upset", "worried", "stressed",
         "tension", "problem", "issue", "nahi", "galat"}
      emphasis == {"bohot", "bahut", "kitna", "very", "so", "too"}
      hasPositive == SomeIncluded(input, positive)
      hasNegative == SomeIncluded(input, negative)
      hasEmphasis == SomeIncluded(input, emphasis)
      sentiment == IF hasPositive /\ ~hasNegative THEN "positive"
                   ELSE IF hasNegative /\ ~hasPositive THEN "negative"
                   ELSE "neutral"
      intensity == IF sentiment = "positive" THEN (IF hasEmphasis THEN 8 ELSE 6)
                   ELSE IF sentiment = "negative" THEN (IF hasEmphasis THEN 7 ELSE 5)
                   ELSE 5
  IN  [sentiment |-> sentiment, intensity |-> intensity,
       should_celebrate |-> (sentiment = "positive" /\ intensity > 6),
       should_comfort |-> (sentiment = "negative" /\ intensity > 4)]

\* if (positive) sentiment = "positive"; if (negative) sentiment = "negative";
quickAnalyze(input) ==
  LET positive ==
        {"mast", "happy", "great", "good", "awesome", "excited", "love", "badiya", "sahi",
         "acha"}
      negative == {"sad", "bad", "thak", "tired", "upset", "worried", "stressed", "nahi"}
      afterPositive == IF SomeIncluded(input, positive) THEN "positive" ELSE "neutral"
  IN  [sentiment |-> IF SomeIncluded(input, negative) THEN "negative" ELSE afterPositive]

NoLabel == [sentiment |-> "none"]

InitSentiment ==
  /\ klass = "HinglishChainPro"
  /\ chain = NoChain
  /\ maxRetries = DefaultMaxRetries
  /\ retryDelay = DefaultRetryDelay
  /\ calls = [c \in Calls |-> IdleCall]
  /\ validation = Unused
  /\ rendering = Unused
  /\ session = Unused
  /\ speedTest = Unused
  /\ verification = Unused
  /\ analysis \in {[input |-> m, full |-> NoLabel, quick |-> NoLabel] : m \in Messages}

\* agent-chat analyses the message
AgentAnalyzes ==
  /\ analysis.full = NoLabel
  /\ analysis' = [analysis EXCEPT
       !.full = [sentiment |-> analyzeSentiment(analysis.input).sentiment]]
  /\ UNCHANGED <<klass, chain, maxRetries, calls, validation, rendering, session,
               retryDelay, speedTest, verification>>

\* the fast chat analyses the message
FastAnalyzes ==
  /\ analysis.quick = NoLabel
  /\ analysis' = [analysis EXCEPT !.quick = quickAnalyze(analysis.input)]
  /\ UNCHANGED <<klass, chain, maxRetries, calls, validation, rendering, session,
               retryDelay, speedTest, verification>>

NextSentiment ==
  \/ AgentAnalyzes
  \/ FastAnalyzes

SpecSentiment == InitSentiment /\ [][NextSentiment]_vars

\* C26: for every message quickAnalyze gives the sentiment label that
\* analyzeSentiment gives.
C26_SameSentiment ==
  (analysis.full # NoLabel /\ analysis.quick # NoLabel) =>
    analysis.quick.sentiment = analysis.full.sentiment

\* ---------------------------------------------------------------------------
\* The speed test: runTests and testModel
\* ---------------------------------------------------------------------------

modelsToTest ==
  << [name |-> "llama3.2:latest"], [name |-> "kimi-k2.5:cloud"], [name |-> "mistral:latest"],
     [name |-> "qwen2.5:0.5b"], [name |-> "gemma:2b"] >>

\* Date.now() - start, in ms: what a call may take
Durations == {900, 2500, 7000}

InitSpeed ==
  /\ klass = "HinglishChainPro"
  /\ chain = NoChain
  /\ maxRetries = DefaultMaxRetries
  /\ retryDelay = DefaultRetryDelay
  /\ calls = [c \in Calls |-> IdleCall]
  /\ validation = Unused
  /\ rendering = Unused
  /\ session = Unused
  /\ speedTest =
       [pc |-> "next", index |-> 0, testing |-> "", started |-> <<>>, results |-> <<>>,
        successfulResults |-> <<>>, failed |-> <<>>]
  /\ verification = Unused
  /\ analysis = Unused

\* for (const model of modelsToTest): testModel(model.name) up to
\* `await chain.invoke({})`
TestStart ==
  /\ speedTest.pc = "next"
  /\ speedTest.index < Len(modelsToTest)
  /\ speedTest' = [speedTest EXCEPT
       !.pc = "testing",
       !.testing = modelsToTest[speedTest.index + 1].name,
       !.started = Append(@, modelsToTest[speedTest.index + 1].name)]
  /\ UNCHANGED <<klass, chain, maxRetries, calls, validation, rendering, session,
               retryDelay, verification, analysis>>

\* what testModel returns, pushed to results; the loop goes to the next model
Recorded(test, success, duration) ==
  [test EXCEPT
     !.pc = "next", !.index = @ + 1, !.testing = "",
     !.results = Append(@, [model |-> test.testing, duration |-> duration,
                            success |-> success])]

\* chain.invoke resolves: success = true
TestResponds(duration) ==
  /\ speedTest.pc = "testing"
  /\ speedTest' = Recorded(speedTest, TRUE, duration)
  /\ UNCHANGED <<klass, chain, maxRetries, calls, validation, rendering, session,
               retryDelay, verification, analysis>>

\* A testModel without the try/catch: the first failure ends runTests.
TestFails_Abort(duration) ==
  /\ speedTest.pc = "testing"
  /\ speedTest' = [speedTest EXCEPT !.pc = "rejected", !.testing = ""]
  /\ UNCHANGED <<klass, chain, maxRetries, calls, validation, rendering, session,
               retryDelay, verification, analysis>>

\* chain.invoke rejects: catch (e) { error = e.message }, success stays false
TestFails(duration) ==
  /\ speedTest.pc = "testing"
  /\ speedTest' = Recorded(speedTest, FALSE, duration)
  /\ UNCHANGED <<klass, chain, maxRetries, calls, validation, rendering, session,
               retryDelay, verification, analysis>>

\* (a, b) => a.duration - b.duration, tested against 0
byDuration_Reversed(a, b) == b.duration - a.duration

byDuration(a, b) == a.duration - b.duration

\* Array.prototype.sort is stable: an element stands behind every element
\* that compares smaller and behind the equal ones that came before it.
SortResults(results) ==
  LET position(i) ==
        Cardinality({j \in 1..Len(results) :
                       \/ byDuration(results[j], results[i]) < 0
                       \/ (byDuration(results[j], results[i]) = 0 /\ j <= i)})
  IN  [k \in 1..Len(results) |->
         results[CHOOSE i \in 1..Len(results) : position(i) = k]]


\* The rest of runTests: the ranked list and the list of failed models.
Report ==
  /\ speedTest.pc = "next"
  /\ speedTest.index = Len(modelsToTest)
  /\ speedTest' = [speedTest EXCEPT
       !.pc = "reported",
       !.successfulResults = SortResults(SelectSeq(speedTest.results, LAMBDA r : r.success)),
       !.failed = SelectSeq(speedTest.results, LAMBDA r : ~r.success)]
  /\ UNCHANGED <<klass, chain, maxRetries, calls, validation, rendering, session,
               retryDelay, verification, analysis>>

NextSpeed ==
  \/ TestStart
  \/ \E duration \in Durations : TestResponds(duration)
  \/ \E duration \in Durations : TestFails(duration)
  \/ Report

SpecSpeed == InitSpeed /\ [][NextSpeed]_vars

\* The script runs on by itself and every model call ends.
SpecSpeedFair == SpecSpeed /\ WF_vars(NextSpeed)

\* ---------------------------------------------------------------------------
\* Properties of the speed test
\* ---------------------------------------------------------------------------

ModelNames == {modelsToTest[i].name : i \in 1..Len(modelsToTest)}

\* C23: the speed test calls the models of modelsToTest one at a time, in
\* list order, each once; a model's call starts only when the result of the
\* model before it is recorded; a failure is recorded and the run goes on, so
\* that every model is tested and the report is reached.
C23_OneModelAtATime ==
  /\ [](/\ Len(speedTest.started) <= Len(modelsToTest)
        /\ \A i \in 1..Len(speedTest.started) :
             speedTest.started[i] = modelsToTest[i].name
        /\ \A i \in 1..Len(speedTest.results) :
             speedTest.results[i].model = speedTest.started[i]
        /\ Len(speedTest.started) =
             Len(speedTest.results) + (IF speedTest.pc = "testing" THEN 1 ELSE 0)
        /\ speedTest.pc = "reported" => Len(speedTest.results) = Len(modelsToTest))
  /\ [][Len(speedTest.started') > Len(speedTest.started) =>
          /\ Len(speedTest.results) = Len(speedTest.started)
          /\ Len(speedTest.started') = Len(speedTest.started) + 1]_vars
  /\ <>(speedTest.pc = "reported"
          /\ ModelNames = {speedTest.results[i].model : i \in 1..Len(speedTest.results)})

C23_Witness ==
  /\ speedTest.pc = "reported"
  /\ ~speedTest.results[1].success
  /\ ~speedTest.results[2].success
  /\ speedTest.results[3].success
  /\ speedTest.results[5].model = "gemma:2b"

ModelsOf(list) == {list[i].model : i \in 1..Len(list)}

\* C24: in the report the ranked list holds exactly the successful results,
\* each once, in order of non-decreasing duration; the list of models not
\* available holds exactly the failed results; every tested model is in
\* exactly one of the two lists.
C24_ReportPartition ==
  speedTest.pc = "reported" =>
    LET ranked == speedTest.successfulResults
        failed == speedTest.failed
        results == speedTest.results
    IN  /\ \A i \in 1..Len(ranked) : ranked[i].success
        /\ \A i \in 1..Len(failed) : ~failed[i].success
        /\ \A i \in 1..Len(results) :
             /\ results[i].success =>
                  Cardinality({j \in 1..Len(ranked) : ranked[j] = results[i]}) = 1
             /\ ~results[i].success =>
                  Cardinality({j \in 1..Len(failed) : failed[j] = results[i]}) = 1
        /\ Len(ranked) + Len(failed) = Len(results)
        /\ \A i \in 1..Len(ranked) : \A j \in 1..Len(ranked) :
             i < j => ranked[i].duration <= ranked[j].duration
        /\ ModelsOf(ranked) \cap ModelsOf(failed) = {}
        /\ ModelsOf(ranked) \cup ModelsOf(failed) = ModelNames

C24_Witness ==
  /\ speedTest.pc = "reported"
  /\ Len(speedTest.successfulResults) = 3
  /\ Len(speedTest.failed) = 2
  /\ speedTest.results[1].success /\ speedTest.results[1].duration = 7000
  /\ speedTest.successfulResults[1].duration = 900
  /\ speedTest.successfulResults[2].duration = 900
  /\ speedTest.successfulResults[3].model = "llama3.2:latest"

====
